---- MODULE Spec2Model ----
(***************************************************************************)
(* The image-to-palette conversion of jo-hoe/goframe:                      *)
(*   src/epd-dither-resize-spectra6.py  geometric normalisation, palette   *)
(*       quantisation, recolouring and raw packing for a SPECTRA6 panel;   *)
(*   src/scripts/dither.py              the generic stdin/stdout filter.   *)
(* Pillow itself is not part of the repository: a call into it is modelled *)
(* by its documented result (the size of the image it returns, the error   *)
(* it raises) and the pixels quantisation chooses are an input.            *)
(*                                                                         *)
(* The specifications of the module:                                       *)
(*   SpecNorm    lines 117-164 of the resize script (rotation and fitting) *)
(*   Spec        lines 167-213 of the resize script (quantise, recolour,   *)
(*               pack, save), SpecCfg the same with other raw index maps   *)
(*   SpecPalette build_palette_table of scripts/dither.py                  *)
(*   SpecDither  main() of scripts/dither.py                               *)
(***************************************************************************)
EXTENDS Integers, Sequences, FiniteSets, TLC

\* ---- bounds of the model ----
\* source and target sides run over 1..MaxDim and a few larger sides
MaxDim == 4
\* the packing loop runs on images of at most MaxPixels pixels
MaxPixels == 4

\* ---- constants of the program ----
\* the padding entries of the resize script's palette (line 172)
PadCount == 250
\* the bound of the assert at line 199
RawLimit == 8
\* build_palette_table (scripts/dither.py, lines 58 and 69)
max_colors == 256
TableLen == 768

\* ---- more bounds ----
\* palettes of 1..MaxShort colours and of max_colors -/+ MaxNear colours
MaxShort == 3
MaxNear == 2
\* the colour lists differ by a seed in 1..MaxSeed
MaxSeed == 7
\* the encoded PNG is PngLen bytes long
PngLen == 2

MantBits == 53

\* ---- binary magnitudes: sequences of bits, most significant first ----
RECURSIVE BitsOf(_)
BitsOf(n) == IF n = 0 THEN <<>> ELSE Append(BitsOf(n \div 2), n % 2)

RECURSIVE BitsValAcc(_, _, _)
BitsValAcc(b, i, acc) == IF i > Len(b) THEN acc ELSE BitsValAcc(b, i + 1, 2 * acc + b[i])

BitsVal(b) == BitsValAcc(b, 1, 0)

Zeros(n) == [i \in 1..n |-> 0]

LeadingZeros(b) == Cardinality({i \in 1..Len(b) : \A j \in 1..i : b[j] = 0})

StripZeros(b) == SubSeq(b, LeadingZeros(b) + 1, Len(b))

PadLeft(b, n) == Zeros(n - Len(b)) \o b

\* -1, 0, 1 as a is below, equal to, above b (Len(a) = Len(b))
CmpSame(a, b) ==
    LET diff == {i \in 1..Len(a) : a[i] # b[i]}
    IN IF diff = {} THEN 0
       ELSE LET i == CHOOSE k \in diff : \A j \in diff : k <= j
            IN IF a[i] > b[i] THEN 1 ELSE -1

\* b + 1 : the trailing run of ones flips to zeros and the zero before it to one
IncBits(b) ==
    LET n == Len(b)
        ones == Cardinality({i \in 1..n : \A j \in i..n : b[j] = 1})
    IN IF ones = n THEN <<1>> \o Zeros(n)
       ELSE [i \in 1..n |-> IF i < n - ones THEN b[i] ELSE IF i = n - ones THEN 1 ELSE 0]

\* b * n + carry for a small n, from the least significant bit up
RECURSIVE MulAcc(_, _, _, _, _)
MulAcc(b, n, i, carry, acc) ==
    IF i = 0 THEN BitsOf(carry) \o acc
    ELSE MulAcc(b, n, i - 1, (b[i] * n + carry) \div 2, <<(b[i] * n + carry) % 2>> \o acc)

MulBits(b, n) == MulAcc(b, n, Len(b), 0, <<>>)

\* a - b for Len(a) = Len(b) and a >= b, from the least significant bit up
RECURSIVE SubAcc(_, _, _, _, _)
SubAcc(a, b, i, borrow, acc) ==
    IF i = 0 THEN acc
    ELSE LET t == a[i] - b[i] - borrow
         IN IF t < 0 THEN SubAcc(a, b, i - 1, 1, <<t + 2>> \o acc)
            ELSE SubAcc(a, b, i - 1, 0, <<t>> \o acc)

SubBits(a, b) == SubAcc(a, b, Len(a), 0, <<>>)

\* n more quotient bits of (r / b), r < b, appended to q; and the remainder
RECURSIVE DivAcc(_, _, _, _)
DivAcc(q, r, b, n) ==
    IF n = 0 THEN [q |-> q, r |-> r]
    ELSE IF 2 * r >= b THEN DivAcc(Append(q, 1), 2 * r - b, b, n - 1)
         ELSE DivAcc(Append(q, 0), 2 * r, b, n - 1)

\* the least k with a * 2^k >= b
RECURSIVE ShiftUp(_, _)
ShiftUp(a, b) == IF a >= b THEN 0 ELSE 1 + ShiftUp(2 * a, b)

RECURSIVE Pow2(_)
Pow2(n) == IF n = 0 THEN 1 ELSE 2 * Pow2(n - 1)

\* ---- IEEE-754 binary64 values in the normal range: s * m * 2^e, where m is
\* ---- a MantBits-bit magnitude with its leading bit set (<<>> for zero) ----
FZero == [s |-> 1, m |-> <<>>, e |-> 0]

\* the double nearest to s * (bits + f) * 2^e, round-half-to-even, where
\* 0 < f < 1 when sticky = 1 and f = 0 otherwise
RoundBits(s, bits, e, sticky) ==
    LET b == StripZeros(bits)
        n == Len(b)
    IN IF n = 0 THEN FZero
       ELSE IF n <= MantBits
            THEN [s |-> s, m |-> b \o Zeros(MantBits - n), e |-> e - (MantBits - n)]
       ELSE LET keep == SubSeq(b, 1, MantBits)
                half == b[MantBits + 1] = 1
                below == sticky = 1 \/ \E i \in (MantBits + 2)..n : b[i] = 1
                up == half /\ (below \/ keep[MantBits] = 1)
                k2 == IF up THEN IncBits(keep) ELSE keep
            IN IF Len(k2) > MantBits
               THEN [s |-> s, m |-> SubSeq(k2, 1, MantBits), e |-> e + (n - MantBits) + 1]
               ELSE [s |-> s, m |-> k2, e |-> e + (n - MantBits)]

\* a / b : Python's true division of two ints, a >= 0, b > 0 (correctly rounded)
IntDiv(a, b) ==
    IF a = 0 THEN FZero
    ELSE IF a >= b
         THEN LET ip == BitsOf(a \div b)
                  n == MantBits + 2 - Len(ip)
                  d == DivAcc(ip, a % b, b, n)
              IN RoundBits(1, d.q, -n, IF d.r # 0 THEN 1 ELSE 0)
         ELSE LET k == ShiftUp(a, b)
                  d == DivAcc(<<1>>, a * Pow2(k) - b, b, MantBits + 1)
              IN RoundBits(1, d.q, -(MantBits + 1) - k, IF d.r # 0 THEN 1 ELSE 0)

\* float(n)
FromInt(n) ==
    IF n < 0 THEN RoundBits(-1, BitsOf(-n), 0, 0) ELSE RoundBits(1, BitsOf(n), 0, 0)

\* n * x for an int n >= 0 and a float x (n converts exactly)
FMulInt(n, x) ==
    IF x.m = <<>> \/ n = 0 THEN FZero ELSE RoundBits(x.s, MulBits(x.m, n), x.e, 0)

\* -1, 0, 1 as x is below, equal to, above y, both >= 0
FCmp(x, y) ==
    IF x.m = <<>> THEN (IF y.m = <<>> THEN 0 ELSE -1)
    ELSE IF y.m = <<>> THEN 1
    ELSE IF x.e # y.e THEN (IF x.e > y.e THEN 1 ELSE -1)
    ELSE CmpSame(x.m, y.m)

\* x - n for a float x >= 0 and an int n >= 0
FSubInt(x, n) ==
    IF x.m = <<>> THEN FromInt(-n)
    ELSE IF x.e > 0 THEN x
    ELSE LET nb == BitsOf(n) \o Zeros(-x.e)
             len == IF Len(nb) > Len(x.m) THEN Len(nb) ELSE Len(x.m)
             a == PadLeft(x.m, len)
             b == PadLeft(nb, len)
             c == CmpSame(a, b)
         IN IF c = 0 THEN FZero
            ELSE IF c > 0 THEN RoundBits(1, SubBits(a, b), x.e, 0)
            ELSE RoundBits(-1, SubBits(b, a), x.e, 0)

\* int(x) : truncation toward zero
FInt(x) ==
    IF x.m = <<>> THEN 0
    ELSE IF x.e >= 0 THEN x.s * BitsVal(x.m) * Pow2(x.e)
    ELSE IF -x.e >= Len(x.m) THEN 0
    ELSE x.s * BitsVal(SubSeq(x.m, 1, Len(x.m) + x.e))

\* ---- state ----
VARIABLES
    pc,              \* the statement the running script is at
    \* epd-dither-resize-spectra6.py, lines 70-164
    target_width, target_height, rotate_180, angle, display_mode,
    input_size,      \* input_image.size
    rotation,        \* degrees input_image has been turned by so far
    width, height,
    resized_width, resized_height, left, top,
    delta_width, delta_height, padding,
    resized_size,    \* resized_image.size, the image handed to quantize
    \* epd-dither-resize-spectra6.py, lines 100-213
    raw_map,         \* SPECTRA6_DEVICE_INDEX_TO_RAW
    quantized_size,  \* quantized_image.size
    quantized_index, \* history: the palette entries quantize() chose
    pixels,          \* quantized_image, as pixels[x, y] reads and writes it
    dithered_file,   \* output/dithered/<name>.png, <<>> until written
    device_file,     \* output/device/<name>.bmp, <<>> until written
    raw_file,        \* output/raw/<name>.sp6, <<>> until written
    raw_bytes, raw_pending, x, y,
    log,             \* history: one record per pass of the loop body
    \* scripts/dither.py
    stdin_data,      \* what sys.stdin.buffer.read() meets
    palette_str, dither,
    colors, pal_table,
    stdout_data,     \* the bytes stdout has received
    exit_code,       \* the status of the process once pc = "exited"
    failed_stage     \* history: the stage whose handler ended the run

normVars == <<target_width, target_height, rotate_180, angle, display_mode,
              input_size, rotation, width, height, resized_width,
              resized_height, left, top, delta_width, delta_height, padding,
              resized_size>>

packVars == <<raw_map, quantized_size, quantized_index, pixels, dithered_file, device_file,
              raw_file, raw_bytes, raw_pending, x, y, log>>

ditherVars == <<stdin_data, palette_str, dither, colors, pal_table,
                stdout_data, exit_code, failed_stage>>

vars == <<pc, normVars, packVars, ditherVars>>

\* a name that is not bound yet
Unset == "unset"
\* delta_width and delta_height are bound in one branch each: <<>> while
\* unbound, <<v>> once bound to v
Unbound == <<>>

\* ---- geometric normalisation (resize script, lines 117-164) ----
\* the part of the state a specification does not use
PackIdle ==
    /\ raw_map = <<>> /\ quantized_size = Unset /\ pixels = <<>>
    /\ quantized_index = <<>>
    /\ dithered_file = <<>> /\ device_file = <<>> /\ raw_file = <<>>
    /\ raw_bytes = <<>> /\ raw_pending = 0 /\ x = 0 /\ y = 0 /\ log = <<>>

NormIdle ==
    /\ target_width = 1 /\ target_height = 1 /\ rotate_180 = FALSE
    /\ angle = 270 /\ display_mode = "scale" /\ input_size = <<1, 1>>
    /\ rotation = 0 /\ width = 1 /\ height = 1
    /\ resized_width = Unset /\ resized_height = Unset
    /\ left = Unset /\ top = Unset
    /\ delta_width = Unbound /\ delta_height = Unbound /\ padding = Unset
    /\ resized_size = Unset

DitherIdle ==
    /\ stdin_data = "empty" /\ palette_str = <<>> /\ dither = "fs"
    /\ colors = <<>> /\ pal_table = <<>> /\ stdout_data = <<>>
    /\ exit_code = 0 /\ failed_stage = "none"

SrcDims == (1..MaxDim) \cup {11, 49}
TgtDims == (1..MaxDim) \cup {15}

\* Image.rotate(angle, expand=True) for a quarter turn: the sides swap
RotateExpand(size) == <<size[2], size[1]>>

\* Image.new("RGB", (target_width, target_height), ...): the canvas of scale mode
NewCanvas_Swapped(tw, th) == <<th, tw>>
NewCanvas(tw, th) == <<tw, th>>

\* ImageOps.pad(image, size=(target_width, target_height), ...) returns an
\* image of the requested size
PadSize(tw, th) == <<tw, th>>

\* max(target_width / width, target_height / height)
ScaleRatio(w, h, tw, th) ==
    LET a == IntDiv(tw, w)
        b == IntDiv(th, h)
    IN IF FCmp(b, a) > 0 THEN b ELSE a

\* int(height * target_width / target_height - width), and the same with
\* the axes exchanged for delta_height
Delta(other, target_this, target_other, this) ==
    FInt(FSubInt(IntDiv(other * target_this, target_other), this))

InitNorm ==
    /\ pc = "rotate180"
    /\ target_width \in TgtDims /\ target_height \in TgtDims
    /\ rotate_180 \in BOOLEAN
    /\ angle \in {90, 270}
    /\ display_mode \in {"scale", "cut"}
    /\ input_size \in SrcDims \X SrcDims
    /\ width = input_size[1] /\ height = input_size[2]
    /\ rotation = 0
    /\ resized_width = Unset /\ resized_height = Unset
    /\ left = Unset /\ top = Unset
    /\ delta_width = Unbound /\ delta_height = Unbound /\ padding = Unset
    /\ resized_size = Unset
    /\ PackIdle /\ DitherIdle

\* lines 121-122
Rotate180 ==
    /\ pc = "rotate180"
    /\ rotation' = IF rotate_180 THEN 180 ELSE 0
    /\ pc' = "orient"
    /\ UNCHANGED <<target_width, target_height, rotate_180, angle,
                   display_mode, input_size, width, height, resized_width,
                   resized_height, left, top, delta_width, delta_height,
                   padding, resized_size, packVars, ditherVars>>

\* lines 125-128
OrientRotate ==
    /\ pc = "orient"
    /\ IF (width > height) # (target_width > target_height)
       THEN /\ input_size' = RotateExpand(input_size)
            /\ rotation' = (rotation + angle) % 360
            /\ width' = RotateExpand(input_size)[1]
            /\ height' = RotateExpand(input_size)[2]
       ELSE UNCHANGED <<input_size, rotation, width, height>>
    /\ pc' = "fit"
    /\ UNCHANGED <<target_width, target_height, rotate_180, angle,
                   display_mode, resized_width, resized_height, left, top,
                   delta_width, delta_height, padding, resized_size, packVars, ditherVars>>

\* lines 130-145; Image.resize raises ValueError for a side below 1
FitScale ==
    /\ pc = "fit" /\ display_mode = "scale"
    /\ LET scale_ratio == ScaleRatio(width, height, target_width, target_height)
           rw == FInt(FMulInt(width, scale_ratio))
           rh == FInt(FMulInt(height, scale_ratio))
       IN /\ resized_width' = rw
          /\ resized_height' = rh
          /\ IF rw < 1 \/ rh < 1
             THEN /\ pc' = "failed"
                  /\ UNCHANGED <<left, top, resized_size>>
             ELSE /\ resized_size' = NewCanvas(target_width, target_height)
                  /\ left' = (target_width - rw) \div 2
                  /\ top' = (target_height - rh) \div 2
                  /\ pc' = "quantize"
    /\ UNCHANGED <<target_width, target_height, rotate_180, angle,
                   display_mode, input_size, rotation, width, height,
                   delta_width, delta_height, padding, packVars, ditherVars>>

\* lines 146-164
FitCut ==
    /\ pc = "fit" /\ display_mode = "cut"
    /\ IF FCmp(IntDiv(width, height), IntDiv(target_width, target_height)) >= 0
       THEN LET d == Delta(height, target_width, target_height, width)
            IN /\ delta_width' = <<d>>
               /\ padding' = <<d \div 2, 0, d - d \div 2, 0>>
               /\ UNCHANGED delta_height
       ELSE LET d == Delta(width, target_height, target_width, height)
            IN /\ delta_height' = <<d>>
               /\ padding' = <<0, d \div 2, 0, d - d \div 2>>
               /\ UNCHANGED delta_width
    /\ resized_size' = PadSize(target_width, target_height)
    /\ pc' = "quantize"
    /\ UNCHANGED <<target_width, target_height, rotate_180, angle,
                   display_mode, input_size, rotation, width, height,
                   resized_width, resized_height, left, top, packVars, ditherVars>>

NextNorm == Rotate180 \/ OrientRotate \/ FitScale \/ FitCut

SpecNorm == InitNorm /\ [][NextNorm]_vars

\* ---- quantise, recolour, pack, save (resize script, lines 82-107, 167-213) ----
SPECTRA6_REAL_WORD_RGB ==
    << <<25, 30, 33>>, <<232, 232, 232>>, <<239, 222, 68>>,
       <<178, 19, 24>>, <<33, 87, 186>>, <<18, 95, 32>> >>

SPECTRA6_DEVICE_RGB ==
    << <<0, 0, 0>>, <<255, 255, 255>>, <<255, 255, 0>>,
       <<255, 0, 0>>, <<0, 0, 255>>, <<0, 255, 0>> >>

SPECTRA6_DEVICE_INDEX_TO_RAW == <<0, 1, 2, 3, 5, 6>>

\* other index tables the packing loop could be configured with: a value in
\* 8..15, a value >= 16, and a table without 0
RawMaps ==
    { SPECTRA6_DEVICE_INDEX_TO_RAW, <<0, 1, 2, 3, 9, 6>>, <<0, 17, 2, 3, 5, 6>>,
      <<1, 2, 3, 4, 5, 7>> }

\* the channel values of a list of colours, in order (resize script line
\* 171, dither.py lines 65-67)
Flat(cs) ==
    [k \in 1..(3 * Len(cs)) |-> cs[((k - 1) \div 3) + 1][((k - 1) % 3) + 1]]

\* rgb * n for a tuple rgb
TupleTimes(rgb, n) == [k \in 1..(Len(rgb) * n) |-> rgb[((k - 1) % Len(rgb)) + 1]]

\* lines 170-173: the six colours, then SPECTRA6_REAL_WORD_RGB[0] * 250
palette == Flat(SPECTRA6_REAL_WORD_RGB) \o TupleTimes(SPECTRA6_REAL_WORD_RGB[1], PadCount)

\* .convert("RGB") of a palette image: entry p (from 0) of the palette
PaletteColor(p) == <<palette[3 * p + 1], palette[3 * p + 2], palette[3 * p + 3]>>

\* list.index(v), from 0; -1 stands for the ValueError of a missing v
ListIndex(list, v) ==
    IF \E i \in 1..Len(list) : list[i] = v
    THEN (CHOOSE i \in 1..Len(list) : list[i] = v /\ \A j \in 1..(i - 1) : list[j] # v) - 1
    ELSE -1

\* SPECTRA6_DEVICE_RGB[index]
DeviceColor_NotMapped(index) == SPECTRA6_REAL_WORD_RGB[index + 1]
DeviceColor(index) == SPECTRA6_DEVICE_RGB[index + 1]

\* a | b on non-negative ints
RECURSIVE BitOr(_, _)
BitOr(a, b) ==
    IF a = 0 THEN b
    ELSE IF b = 0 THEN a
    ELSE 2 * BitOr(a \div 2, b \div 2) + (IF a % 2 = 1 \/ b % 2 = 1 THEN 1 ELSE 0)

\* (raw_pending << 4) | raw_value
PackByte(pending, value) == BitOr(pending * 16, value)

\* the palette entries quantize hands out in the model: four of the six
\* colours and the last padding entry
QuantIdx == {0, 1, 4, 255}

Cells(size) == (0..(size[1] - 1)) \X (0..(size[2] - 1))

\* image sizes of at most MaxPixels pixels
SmallSizes == {s \in (1..MaxPixels) \X (1..MaxPixels) : s[1] * s[2] <= MaxPixels}

\* the state at line 167, with a normalised image of a small size
InitAt167(maps) ==
    /\ pc = "quantize"
    /\ resized_size \in SmallSizes
    /\ target_width = resized_size[1] /\ target_height = resized_size[2]
    /\ rotate_180 = FALSE /\ angle = 270 /\ display_mode = "scale"
    /\ input_size = resized_size
    /\ width = resized_size[1] /\ height = resized_size[2]
    /\ rotation = 0
    /\ resized_width = resized_size[1] /\ resized_height = resized_size[2]
    /\ left = 0 /\ top = 0
    /\ delta_width = Unbound /\ delta_height = Unbound /\ padding = Unset
    /\ raw_map \in maps
    /\ quantized_size = Unset /\ quantized_index = <<>> /\ pixels = <<>>
    /\ dithered_file = <<>> /\ device_file = <<>> /\ raw_file = <<>>
    /\ raw_bytes = <<>> /\ raw_pending = 0 /\ x = 0 /\ y = 0 /\ log = <<>>
    /\ DitherIdle

Init == InitAt167({SPECTRA6_DEVICE_INDEX_TO_RAW})

InitCfg == InitAt167(RawMaps)

\* lines 167-179: quantize against the padded palette, convert to RGB
Quantize ==
    /\ pc = "quantize"
    /\ \E grid \in [Cells(resized_size) -> QuantIdx] :
           /\ quantized_index' = grid
           /\ pixels' = [c \in Cells(resized_size) |-> PaletteColor(grid[c])]
    /\ quantized_size' = resized_size
    /\ pc' = "save_preview"
    /\ UNCHANGED <<normVars, ditherVars, raw_map, dithered_file, device_file, raw_file,
                   raw_bytes, raw_pending, x, y, log>>

\* lines 182-194: save the preview, then enter the loops at their first pixel
SavePreview ==
    /\ pc = "save_preview"
    /\ dithered_file' = pixels
    /\ raw_bytes' = <<>>
    /\ raw_pending' = 0
    /\ y' = quantized_size[2] - 1
    /\ x' = quantized_size[1] - 1
    /\ pc' = "pack"
    /\ UNCHANGED <<normVars, ditherVars, raw_map, quantized_size, quantized_index,
                   pixels, device_file,
                   raw_file, log>>

\* the assert of line 199
RawValueOk(raw_value) == raw_value < RawLimit

\* the test of line 200: the pixel is held back as the pending one
IsPending(col) == col % 2 = 0

\* lines 193-194: the loops step to the next pixel, or end
NextPixel ==
    IF x > 0 THEN x' = x - 1 /\ UNCHANGED <<y, pc>>
    ELSE IF y > 0 THEN x' = quantized_size[1] - 1 /\ y' = y - 1 /\ UNCHANGED pc
    ELSE pc' = "save_device" /\ UNCHANGED <<x, y>>

\* lines 195-203, one pass of the loop body
PackPixel ==
    /\ pc = "pack"
    /\ LET index == ListIndex(SPECTRA6_REAL_WORD_RGB, pixels[<<x, y>>])
           raw_value == raw_map[index + 1]
           byte == PackByte(raw_pending, raw_value)
           entry(v, n) == [x |-> x, y |-> y, index |-> index, raw_value |-> v, nbytes |-> n]
       IN IF index = -1
          THEN \* ValueError at line 196
               /\ pc' = "failed"
               /\ log' = Append(log, entry(-1, Len(raw_bytes)))
               /\ UNCHANGED <<pixels, raw_bytes, raw_pending, x, y>>
          ELSE /\ pixels' = [pixels EXCEPT ![<<x, y>>] = DeviceColor(index)]
               /\ IF ~RawValueOk(raw_value)
                  THEN \* AssertionError at line 199
                       /\ pc' = "failed"
                       /\ log' = Append(log, entry(raw_value, Len(raw_bytes)))
                       /\ UNCHANGED <<raw_bytes, raw_pending, x, y>>
                  ELSE IF IsPending(x)
                  THEN /\ raw_pending' = raw_value
                       /\ log' = Append(log, entry(raw_value, Len(raw_bytes)))
                       /\ UNCHANGED raw_bytes
                       /\ NextPixel
                  ELSE IF byte > 255
                  THEN \* bytearray.append raises ValueError outside range(256)
                       /\ pc' = "failed"
                       /\ log' = Append(log, entry(raw_value, Len(raw_bytes)))
                       /\ UNCHANGED <<raw_bytes, raw_pending, x, y>>
                  ELSE /\ raw_bytes' = Append(raw_bytes, byte)
                       /\ log' = Append(log, entry(raw_value, Len(raw_bytes) + 1))
                       /\ UNCHANGED raw_pending
                       /\ NextPixel
    /\ UNCHANGED <<normVars, ditherVars, raw_map, quantized_size, quantized_index,
                   dithered_file,
                   device_file, raw_file>>

\* lines 204-206
SaveDevice ==
    /\ pc = "save_device"
    /\ device_file' = pixels
    /\ pc' = "save_raw"
    /\ UNCHANGED <<normVars, ditherVars, raw_map, quantized_size, quantized_index,
                   pixels, dithered_file,
                   raw_file, raw_bytes, raw_pending, x, y, log>>

\* lines 210-213
SaveRaw ==
    /\ pc = "save_raw"
    /\ raw_file' = raw_bytes
    /\ pc' = "done"
    /\ UNCHANGED <<normVars, ditherVars, raw_map, quantized_size, quantized_index,
                   pixels, dithered_file,
                   device_file, raw_bytes, raw_pending, x, y, log>>

Next == Quantize \/ SavePreview \/ PackPixel \/ SaveDevice \/ SaveRaw

Spec == Init /\ [][Next]_vars

SpecCfg == InitCfg /\ [][Next]_vars

\* ---- scripts/dither.py ----
\* a str is a sequence of one-character strings
Digits == <<"0", "1", "2", "3", "4", "5", "6", "7", "8", "9">>

IsDigit(c) == \E d \in 1..10 : Digits[d] = c

DigitVal(c) == (CHOOSE d \in 1..10 : Digits[d] = c) - 1

\* s.strip(), the only whitespace of the model being the blank
StrStrip(s) ==
    LET solid == {i \in 1..Len(s) : s[i] # " "}
    IN IF solid = {} THEN <<>>
       ELSE SubSeq(s, CHOOSE i \in solid : \A j \in solid : i <= j,
                      CHOOSE i \in solid : \A j \in solid : i >= j)

\* s.split(sep): the pieces between the separators, empty ones included
RECURSIVE SplitAcc(_, _, _, _, _)
SplitAcc(s, sep, i, cur, acc) ==
    IF i > Len(s) THEN Append(acc, cur)
    ELSE IF s[i] = sep THEN SplitAcc(s, sep, i + 1, <<>>, Append(acc, cur))
    ELSE SplitAcc(s, sep, i + 1, Append(cur, s[i]), acc)

Split(s, sep) == SplitAcc(s, sep, 1, <<>>, <<>>)

\* [f(e) for e in list if keep(e)] with f = strip, keep = a non-empty strip
RECURSIVE StrippedNonEmpty(_, _, _)
StrippedNonEmpty(list, i, acc) ==
    IF i > Len(list) THEN acc
    ELSE IF StrStrip(list[i]) # <<>>
         THEN StrippedNonEmpty(list, i + 1, Append(acc, StrStrip(list[i])))
         ELSE StrippedNonEmpty(list, i + 1, acc)

\* int(s) accepts an optional sign and then digits only
IntOk(s) ==
    LET body == IF s # <<>> /\ s[1] = "-" THEN Tail(s) ELSE s
    IN body # <<>> /\ \A i \in 1..Len(body) : IsDigit(body[i])

RECURSIVE DigitsVal(_, _, _)
DigitsVal(s, i, acc) ==
    IF i > Len(s) THEN acc ELSE DigitsVal(s, i + 1, 10 * acc + DigitVal(s[i]))

IntOf(s) == IF s[1] = "-" THEN -DigitsVal(Tail(s), 1, 0) ELSE DigitsVal(s, 1, 0)

\* lines 39-49 for one entry: its colour, or <<>> for a ValueError
ParseEntry(entry) ==
    LET raw_parts == Split(entry, ",")
        parts == [k \in 1..Len(raw_parts) |-> StrStrip(raw_parts[k])]
    IN IF Len(parts) # 3 THEN <<>>
       ELSE IF \E k \in 1..3 : ~IntOk(parts[k]) THEN <<>>
       ELSE IF \E k \in 1..3 : IntOf(parts[k]) < 0 \/ IntOf(parts[k]) > 255 THEN <<>>
       ELSE <<IntOf(parts[1]), IntOf(parts[2]), IntOf(parts[3])>>

\* parse_palette: the list of colours, or <<>> for a ValueError (the list
\* returned is never empty)
parse_palette(str) ==
    IF str = <<>> THEN <<>>
    ELSE LET entries == StrippedNonEmpty(Split(str, ";"), 1, <<>>)
             cs == [k \in 1..Len(entries) |-> ParseEntry(entries[k])]
         IN IF \E k \in 1..Len(entries) : cs[k] = <<>> THEN <<>>
            ELSE cs

\* line 64: colors + [first] * n
PadColors_WithLast(cs, n) == cs \o [i \in 1..n |-> cs[Len(cs)]]
PadColors(cs, n) == cs \o [i \in 1..n |-> cs[1]]

\* build_palette_table for a non-empty list: the flat table, or <<>> for the
\* RuntimeError of line 70
build_palette_table(cs) ==
    LET kept == IF Len(cs) > max_colors THEN SubSeq(cs, 1, max_colors) ELSE cs
        full == IF Len(kept) < max_colors THEN PadColors(kept, max_colors - Len(kept)) ELSE kept
        flat == Flat(full)
    IN IF Len(flat) # TableLen THEN <<>> ELSE flat

\* what stdin holds: nothing readable, nothing, an image, bytes that are none
StdinCases == {"unreadable", "empty", "image", "garbage"}

\* --palette arguments of the model
PaletteStrs ==
    { <<>>,
      <<"0", ",", "0", ",", "0", ";", "2", "5", "5", ",", "2", "5", "5", ",", "2", "5", "5">>,
      <<" ", "1", " ", ",", "2", ",", " ", "3", ";">>,
      <<"1", ",", "2", ",", "3", ";", ";", "4", ",", "5", ",", "6">>,
      <<"9", ",", "9", ",", "0", "9">>,
      <<";">>,
      <<" ">>,
      <<"0", ",", "0">>,
      <<"0", ",", "0", ",", "0", ",", "0">>,
      <<"0", ",", "0", ",", "x">>,
      <<"0", ",", ",", "0">>,
      <<"0", ",", "0", ",", "2", "5", "6">>,
      <<"0", ",", "-", "1", ",", "0">>,
      <<"1", ",", "2", ",", "3", ";", "4", ",", "5">>,
      <<"1", " ", "2", ",", "3", ",", "4">> }

\* out.getvalue(): the encoded PNG, PngLen bytes of it
Png == [i \in 1..PngLen |-> i]

\* lists of n colours, all different
ColorList(n, seed) == [i \in 1..n |-> <<(i * seed) % 256, (i + seed) % 256, i \div 256>>]

PaletteLens == (1..MaxShort) \cup ((max_colors - MaxNear)..(max_colors + MaxNear))

ColorLists == {ColorList(n, seed) : n \in PaletteLens, seed \in 1..MaxSeed}

\* the argument of the sys.exit each except clause of main() ends in
ExitCodeOf_Shared(stage) ==
    CASE stage = "read" -> 1
      [] stage = "decode" -> 1
      [] stage = "palette" -> 3
      [] OTHER -> 4
ExitCodeOf(stage) ==
    CASE stage = "read" -> 1
      [] stage = "decode" -> 2
      [] stage = "palette" -> 3
      [] OTHER -> 4

\* sys.exit(ExitCodeOf(stage)) in the handler of a stage
ExitFrom(stage) ==
    /\ pc' = "exited"
    /\ exit_code' = ExitCodeOf(stage)
    /\ failed_stage' = stage

InitDither ==
    /\ pc = "read_stdin"
    /\ stdin_data \in StdinCases
    /\ palette_str \in PaletteStrs
    /\ dither \in {"fs", "none"}
    /\ colors = <<>> /\ pal_table = <<>> /\ stdout_data = <<>>
    /\ exit_code = 0 /\ failed_stage = "none"
    /\ NormIdle /\ PackIdle

\* lines 80-87
ReadStdin ==
    /\ pc = "read_stdin"
    /\ IF stdin_data \in {"unreadable", "empty"}
       THEN ExitFrom("read")
       ELSE pc' = "decode" /\ UNCHANGED <<exit_code, failed_stage>>
    /\ UNCHANGED <<normVars, packVars, stdin_data, palette_str, dither, colors,
                   pal_table, stdout_data>>

\* lines 89-93
Decode ==
    /\ pc = "decode"
    /\ IF stdin_data = "garbage"
       THEN ExitFrom("decode")
       ELSE pc' = "palette" /\ UNCHANGED <<exit_code, failed_stage>>
    /\ UNCHANGED <<normVars, packVars, stdin_data, palette_str, dither, colors,
                   pal_table, stdout_data>>

\* lines 95-102
PaletteStage ==
    /\ pc = "palette"
    /\ LET parsed == parse_palette(palette_str)
       IN IF parsed = <<>>
          THEN ExitFrom("palette") /\ UNCHANGED <<colors, pal_table>>
          ELSE /\ colors' = parsed
               /\ pal_table' = build_palette_table(parsed)
               /\ IF build_palette_table(parsed) = <<>>
                  THEN ExitFrom("palette")
                  ELSE pc' = "dither" /\ UNCHANGED <<exit_code, failed_stage>>
    /\ UNCHANGED <<normVars, packVars, stdin_data, palette_str, dither,
                   stdout_data>>

\* lines 104-115: quantize or the PNG encoder raises with nothing written; the
\* write and flush of stdout deliver n bytes of the PNG and raise unless that
\* is all of it; otherwise main() returns and the process ends with status 0
DitherStage ==
    /\ pc = "dither"
    /\ \/ \E stage \in {"quantize", "encode"} :
              ExitFrom(stage) /\ UNCHANGED stdout_data
       \/ \E n \in 0..Len(Png) :
              /\ stdout_data' = SubSeq(Png, 1, n)
              /\ IF n < Len(Png)
                 THEN ExitFrom("write")
                 ELSE pc' = "exited" /\ exit_code' = 0 /\ UNCHANGED failed_stage
    /\ UNCHANGED <<normVars, packVars, stdin_data, palette_str, dither, colors,
                   pal_table>>

NextDither == ReadStdin \/ Decode \/ PaletteStage \/ DitherStage

SpecDither == InitDither /\ [][NextDither]_vars

\* build_palette_table alone, on lists of up to max_colors + MaxNear colours
InitPalette ==
    /\ pc = "build_table"
    /\ colors \in ColorLists
    /\ stdin_data = "image" /\ palette_str = <<>> /\ dither = "fs"
    /\ pal_table = <<>> /\ stdout_data = <<>>
    /\ exit_code = 0 /\ failed_stage = "none"
    /\ NormIdle /\ PackIdle

\* line 97
BuildTable ==
    /\ pc = "build_table"
    /\ pal_table' = build_palette_table(colors)
    /\ pc' = "table_built"
    /\ UNCHANGED <<normVars, packVars, stdin_data, palette_str, dither, colors,
                   stdout_data, exit_code, failed_stage>>

\* lines 98-99: the table becomes the palette of pal_img
PutPalette ==
    /\ pc = "table_built"
    /\ pc' = IF pal_table = <<>> THEN "table_error" ELSE "palette_put"
    /\ UNCHANGED <<normVars, packVars, ditherVars>>

NextPalette == BuildTable \/ PutPalette

SpecPalette == InitPalette /\ [][NextPalette]_vars

\* ---- claims about the geometric normalisation (SpecNorm) ----

\* C5: whatever the source size, the target size, rotate_180, rotate_angle and
\* the mode, the image handed to quantisation is exactly
\* target_width x target_height.
C5_NormalizedSizeIsTarget ==
    pc = "quantize" => resized_size = <<target_width, target_height>>

\* C5's case: a run that turned the image twice and fitted a source of another
\* aspect ratio reaches quantisation.
C5_Witness ==
    /\ pc = "quantize" /\ rotate_180 /\ rotation = 90
    /\ width * target_height # height * target_width
    /\ resized_size = <<15, 2>>

\* the delta cut mode computed, and the sides it belongs to
CutOnWidth == delta_width # Unbound
CutDelta == IF CutOnWidth THEN delta_width[1] ELSE delta_height[1]
CutThis == IF CutOnWidth THEN width ELSE height
CutOther == IF CutOnWidth THEN height ELSE width
CutTargetThis == IF CutOnWidth THEN target_width ELSE target_height
CutTargetOther == IF CutOnWidth THEN target_height ELSE target_width

\* C6: in cut mode the delta of the chosen axis is the padding that brings the
\* source to the target aspect ratio: it is >= 0, the padded side is within one
\* pixel of other * target_this / target_other, the other axis gets no
\* padding, before = delta // 2 and after = delta - before, and a source
\* of the target's aspect ratio gets zero padding on all four sides.
C6_DeltaIsPadding ==
    (pc = "quantize" /\ display_mode = "cut") =>
        /\ CutDelta >= 0
        /\ (CutThis + CutDelta) * CutTargetOther - CutOther * CutTargetThis < CutTargetOther
        /\ CutOther * CutTargetThis - (CutThis + CutDelta) * CutTargetOther < CutTargetOther
        /\ padding = IF CutOnWidth
                     THEN <<CutDelta \div 2, 0, CutDelta - CutDelta \div 2, 0>>
                     ELSE <<0, CutDelta \div 2, 0, CutDelta - CutDelta \div 2>>
        /\ (width * target_height = height * target_width => padding = <<0, 0, 0, 0>>)

\* C9: in scale mode the resized image covers the target canvas, so both
\* paste offsets are <= 0.
C9_ScaleCovers ==
    (pc = "quantize" /\ display_mode = "scale") =>
        /\ resized_width >= target_width
        /\ resized_height >= target_height
        /\ left <= 0
        /\ top <= 0

\* ---- claims about recolouring and packing (Spec, SpecCfg) ----

\* the loops have run to their end
PackCompleted == pc \in {"save_device", "save_raw", "done"}

\* pixel i (from 0) of the full reverse raster order: rows from the last to
\* the first, and in each row columns from the last to the first
ScanCell(i) ==
    <<quantized_size[1] - 1 - (i % quantized_size[1]),
      quantized_size[2] - 1 - (i \div quantized_size[1])>>

\* the palette index of the preview pixel at c, and its raw value
PreviewIndex(c) == ListIndex(SPECTRA6_REAL_WORD_RGB, dithered_file[c])
PreviewRaw(c) == raw_map[PreviewIndex(c) + 1]

PixelCount == quantized_size[1] * quantized_size[2]

\* nibble i (from 1) of a byte sequence, high nibble first
Nibble(bytes, i) ==
    IF i % 2 = 1 THEN bytes[(i + 1) \div 2] \div 16 ELSE bytes[(i + 1) \div 2] % 16

Range(f) == {f[i] : i \in DOMAIN f}

\* C1: for an even pixel count the raw file holds w*h/2 bytes, and byte k is
\* (map[p(2k)] << 4) | map[p(2k+1)] for the pixels p(0), p(1), ... of the full
\* reverse raster order: first pixel of a pair high, second low.
C1_BytesPairReverseRaster ==
    (pc = "done" /\ PixelCount % 2 = 0) =>
        /\ Len(raw_file) = PixelCount \div 2
        /\ \A k \in 0..(PixelCount \div 2 - 1) :
               raw_file[k + 1] = BitOr(PreviewRaw(ScanCell(2 * k)) * 16,
                                       PreviewRaw(ScanCell(2 * k + 1)))

\* C2: whenever packing completes, the raw file holds ceil(w*h/2) bytes.
C2_RawLengthIsCeilHalf ==
    pc = "done" => Len(raw_file) = (PixelCount + 1) \div 2

C4_NoPixelDropped ==
    PackCompleted =>
        /\ PixelCount % 2 = 0
        /\ \A i \in 1..Len(log) :
               /\ i <= 2 * Len(raw_bytes)
               /\ Nibble(raw_bytes, i) = log[i].raw_value

\* C10: the preview is written before any pixel is recoloured and holds only
\* palette colours; the pass reads and recolours every pixel exactly once, each
\* lookup finds an index in 0..5 (0 for a pixel quantized to a padding entry),
\* and after the pass the device pixel at (x, y) is DeviceColorMap[i] and the
\* raw value used for it RawIndexMap[i], i being the palette index of the
\* preview pixel at (x, y).
C10_RecolourPass ==
    /\ log # <<>> => dithered_file # <<>>
    /\ dithered_file # <<>> =>
           \A c \in Cells(quantized_size) : dithered_file[c] \in Range(SPECTRA6_REAL_WORD_RGB)
    /\ pc # "failed"
    /\ \A i \in 1..Len(log) :
           /\ log[i].index \in 0..5
           /\ log[i].index = PreviewIndex(<<log[i].x, log[i].y>>)
           /\ log[i].index = IF quantized_index[<<log[i].x, log[i].y>>] < 6
                             THEN quantized_index[<<log[i].x, log[i].y>>]
                             ELSE 0
           /\ log[i].raw_value = raw_map[log[i].index + 1]
           /\ \A j \in 1..Len(log) : (log[j].x = log[i].x /\ log[j].y = log[i].y) => j = i
    /\ PackCompleted =>
           \A c \in Cells(quantized_size) :
               /\ \E i \in 1..Len(log) : <<log[i].x, log[i].y>> = c
               /\ pixels[c] = SPECTRA6_DEVICE_RGB[PreviewIndex(c) + 1]
    /\ pc = "done" =>
           \A c \in Cells(quantized_size) :
               device_file[c] = SPECTRA6_DEVICE_RGB[PreviewIndex(c) + 1]

\* C10's case: a finished 2x2 run whose pixel (0, 0) was blue (index 4) in
\* the preview and is device blue in the device image, and whose pixel (1, 1)
\* was quantized to the padding entry 255 and is device black.
C10_Witness ==
    /\ pc = "done" /\ quantized_size = <<2, 2>> /\ Len(log) = 4
    /\ dithered_file[<<0, 0>>] = <<33, 87, 186>>
    /\ device_file[<<0, 0>>] = <<0, 0, 255>>
    /\ quantized_index[<<1, 1>>] = 255
    /\ dithered_file[<<1, 1>>] = <<25, 30, 33>>
    /\ device_file[<<1, 1>>] = <<0, 0, 0>>

\* ---- claims about scripts/dither.py (SpecPalette, SpecDither) ----

\* entry e (from 0) of a flat palette table
TableEntry(t, e) == <<t[3 * e + 1], t[3 * e + 2], t[3 * e + 3]>>

WellFormedPalettes ==
    { <<"0", ",", "0", ",", "0", ";", "2", "5", "5", ",", "2", "5", "5", ",", "2", "5", "5">>,
      <<" ", "1", " ", ",", "2", ",", " ", "3", ";">>,
      <<"1", ",", "2", ",", "3", ";", ";", "4", ",", "5", ",", "6">>,
      <<"9", ",", "9", ",", "0", "9">> }

\* the exit code of the first stage the inputs make fail, 0 if none of the
\* first three does
FirstFailure ==
    IF stdin_data \in {"unreadable", "empty"} THEN 1
    ELSE IF stdin_data = "garbage" THEN 2
    ELSE IF palette_str \notin WellFormedPalettes THEN 3
    ELSE 0

\* the stages run in order and the first failing one decides the exit code
ExitCodeByStage ==
    /\ FirstFailure # 0 => exit_code = FirstFailure
    /\ FirstFailure = 0 => /\ exit_code \in {0, 4}
                           /\ exit_code = 4 <=> failed_stage # "none"
    /\ exit_code = 0 => stdout_data = Png

\* C8: the stages run in the order read, decode, palette, dither/encode, each
\* failure ends the run with its own code (1, 2, 3, 4) and the first failing
\* stage decides; a failing run has written no image byte to stdout, and
\* status 0 comes only after the complete PNG was written.
C8_NoOutputOnFailure ==
    pc = "exited" =>
        /\ ExitCodeByStage
        /\ exit_code # 0 => stdout_data = <<>>

\* C8 as amended: as above, except that a run failing in the write or flush
\* of stdout itself (also code 4) may have written a proper prefix of the
\* PNG; every other failing run has written nothing.
C8_NoOutputUnlessWriteFails ==
    pc = "exited" =>
        /\ ExitCodeByStage
        /\ (exit_code # 0 /\ failed_stage # "write") => stdout_data = <<>>
        /\ failed_stage = "write" =>
               /\ exit_code = 4
               /\ \E n \in 0..(Len(Png) - 1) : stdout_data = SubSeq(Png, 1, n)

\* C8's case: the write of stdout failed after the first byte of the PNG.
C8_Witness ==
    /\ pc = "exited" /\ exit_code = 4 /\ failed_stage = "write"
    /\ stdout_data = <<1>>
    /\ colors = << <<1, 2, 3>>, <<4, 5, 6>> >>

====
